---- MODULE Spec2Model ----
(***************************************************************************)
(* The image processor of src/src/imageProcessor.ts with its entry point   *)
(* (src/src/utils/logger.ts, lines 35-62) and the two collections of       *)
(* src/unnamed/part_000.                                                   *)
(*                                                                         *)
(* Text is a sequence of one-character strings, so that trimming,          *)
(* lower-casing, parseInt and toString are computed character by           *)
(* character.  A file is the sequence of its lines and a line the sequence *)
(* of its comma-separated cells: the CSV has no quoting, so this is what   *)
(* data.split('\n') and row.split(',') yield.                              *)
(***************************************************************************)
EXTENDS Integers, Sequences, FiniteSets, TLC

\* ------------------------------------------------------------- bounds
MaxRows == 3
MaxPasses == 2
MaxBatchSize == 2
MaxCutoff == 2
MaxChunkRows == 3
MaxResumeRows == 2

\* ------------------------------------------------- program constants
maxFileSize == 125829120
DefaultMaxAttempts == 3

\* --------------------------------------------------------------- text
Digits == <<"0", "1", "2", "3", "4", "5", "6", "7", "8", "9">>

UpperCase == <<"A", "B", "C", "D", "E", "F", "G", "H", "I", "J", "K", "L", "M",
               "N", "O", "P", "Q", "R", "S", "T", "U", "V", "W", "X", "Y", "Z">>

LowerCase == <<"a", "b", "c", "d", "e", "f", "g", "h", "i", "j", "k", "l", "m",
               "n", "o", "p", "q", "r", "s", "t", "u", "v", "w", "x", "y", "z">>

IsDigit(c) == \E i \in 1..10 : Digits[i] = c

DigitVal(c) == (CHOOSE i \in 1..10 : Digits[i] = c) - 1

IsSpace(c) == c \in {" ", "\t", "\r"}

IsAlpha(c) == \E i \in 1..26 : UpperCase[i] = c \/ LowerCase[i] = c

\* String.prototype.toLowerCase, one character
LowerChar(c) ==
    IF \E i \in 1..26 : UpperCase[i] = c
    THEN LowerCase[CHOOSE i \in 1..26 : UpperCase[i] = c]
    ELSE c

ToLowerCase(s) == [i \in 1..Len(s) |-> LowerChar(s[i])]

RECURSIVE TrimStart(_)
TrimStart(s) ==
    IF s # <<>> /\ IsSpace(Head(s)) THEN TrimStart(Tail(s)) ELSE s

RECURSIVE TrimEnd(_)
TrimEnd(s) ==
    IF s # <<>> /\ IsSpace(s[Len(s)]) THEN TrimEnd(SubSeq(s, 1, Len(s) - 1)) ELSE s

\* String.prototype.trim
Trim(s) == TrimEnd(TrimStart(s))

\* the number of leading decimal digits of s
RECURSIVE DigitRun(_)
DigitRun(s) ==
    IF s # <<>> /\ IsDigit(Head(s)) THEN 1 + DigitRun(Tail(s)) ELSE 0

RECURSIVE DigitsValue(_)
DigitsValue(s) ==
    IF s = <<>> THEN 0 ELSE 10 * DigitsValue(SubSeq(s, 1, Len(s) - 1)) + DigitVal(s[Len(s)])

\* parseInt(s, 10): leading white space and one sign are skipped, the longest
\* run of digits is read and what follows it is ignored; no digit gives NaN.
ParseInt(s) ==
    LET t == TrimStart(s)
        signed == t # <<>> /\ Head(t) \in {"+", "-"}
        body == IF signed THEN Tail(t) ELSE t
        n == DigitRun(body)
        v == DigitsValue(SubSeq(body, 1, n))
    IN  IF n = 0 THEN [nan |-> TRUE, val |-> 0]
        ELSE [nan |-> FALSE, val |-> IF signed /\ Head(t) = "-" THEN 0 - v ELSE v]

IsNaN(p) == p.nan

RECURSIVE NatToString(_)
NatToString(n) ==
    IF n < 10 THEN <<Digits[n + 1]>>
    ELSE NatToString(n \div 10) \o <<Digits[(n % 10) + 1]>>

\* Number.prototype.toString of an integer
NumberToString(n) == IF n < 0 THEN <<"-">> \o NatToString(0 - n) ELSE NatToString(n)

\* the index a row carries: parseInt(row.index, 10)
RowIndex(row) == ParseInt(row.index).val

\* ---------------------------------------------------------------- URL
\* the length of the scheme of u (a letter, then letters, digits, "+", "-",
\* "."), 0 when u does not start with a letter
RECURSIVE SchemeRun(_)
SchemeRun(s) ==
    IF s # <<>> /\ (IsAlpha(Head(s)) \/ IsDigit(Head(s)) \/ Head(s) \in {"+", "-", "."})
    THEN 1 + SchemeRun(Tail(s))
    ELSE 0

SchemeLen(u) == IF u # <<>> /\ IsAlpha(Head(u)) THEN SchemeRun(u) ELSE 0

RECURSIVE SkipSlashes(_)
SkipSlashes(s) ==
    IF s # <<>> /\ Head(s) \in {"/", "\\"} THEN SkipSlashes(Tail(s)) ELSE s

SpecialSchemes == { <<"h", "t", "t", "p">>, <<"h", "t", "t", "p", "s">>,
                    <<"f", "t", "p">>, <<"w", "s">>, <<"w", "s", "s">> }

\* new URL(url) without a base: it throws unless url has a scheme followed
\* by ":", and for a special scheme a host after the slashes.
ValidateUrl(url) ==
    LET u == Trim(url)
        n == SchemeLen(u)
    IN  /\ n > 0
        /\ Len(u) > n
        /\ u[n + 1] = ":"
        /\ ToLowerCase(SubSeq(u, 1, n)) \in SpecialSchemes
              => SkipSlashes(SubSeq(u, n + 2, Len(u))) # <<>>

\* ---------------------------------------------------------------- CSV
FieldId == <<"i", "d">>
FieldUrl == <<"u", "r", "l">>
FieldIndex == <<"i", "n", "d", "e", "x">>

Includes(seq, x) == \E i \in 1..Len(seq) : seq[i] = x

\* row.trim() is empty: the line has no comma and only white space
IsBlankLine(line) == Len(line) = 1 /\ Trim(line[1]) = <<>>

KeepLine(line) == ~IsBlankLine(line)

\* headersLine.split(',').map(header => header.trim().toLowerCase())
Headers(headersLine) == [i \in 1..Len(headersLine) |-> ToLowerCase(Trim(headersLine[i]))]

\* obj[header] = values[index] for every header in turn: the last column of
\* that name wins, a missing value is undefined (falsy, here the empty text)
Field(headers, line, name) ==
    LET cols == {i \in 1..Len(headers) : headers[i] = name}
        last == CHOOSE i \in cols : \A j \in cols : j <= i
    IN  IF cols = {} \/ last > Len(line) THEN <<>> ELSE Trim(line[last])

MapRow(headers, line) ==
    [id |-> Field(headers, line, FieldId),
     index |-> Field(headers, line, FieldIndex),
     url |-> Field(headers, line, FieldUrl)]

ValidateRow(row) ==
    /\ row.id # <<>>
    /\ row.url # <<>>
    /\ row.index # <<>>
    /\ ~IsNaN(ParseInt(row.index))
    /\ ValidateUrl(row.url)

\* readCSV on the lines of the file: an error, or the validated rows
ReadCSVResult(lines) ==
    LET rows == SelectSeq(lines, KeepLine)
    IN  IF rows = <<>>
        THEN [ok |-> FALSE, rows |-> <<>>]
        ELSE LET headers == Headers(Head(rows))
                 body == Tail(rows)
                 mappedRows == [i \in 1..Len(body) |-> MapRow(headers, body[i])]
             IN  IF ~Includes(headers, FieldId) \/ ~Includes(headers, FieldUrl)
                       \/ ~Includes(headers, FieldIndex)
                 THEN [ok |-> FALSE, rows |-> <<>>]
                 ELSE [ok |-> TRUE, rows |-> SelectSeq(mappedRows, ValidateRow)]

\* ------------------------------------------------------------ lodash
Min(a, b) == IF a < b THEN a ELSE b

\* a chunk that drops the rows after the last full slice
ChunkFloor(rs, size) ==
    IF Len(rs) = 0 \/ size < 1
    THEN <<>>
    ELSE [k \in 1..(Len(rs) \div size) |-> SubSeq(rs, (k - 1) * size + 1, k * size)]

\* _.chunk(rows, size): no chunk at all when size < 1 (or NaN, which
\* toInteger turns into 0), else consecutive slices of at most size rows
Chunk(rs, size) ==
    IF Len(rs) = 0 \/ size < 1
    THEN <<>>
    ELSE [k \in 1..((Len(rs) + size - 1) \div size) |->
             SubSeq(rs, (k - 1) * size + 1, Min(k * size, Len(rs)))]

\* -------------------------------------------------------- collections
\* A collection is the set of its documents.  Both schemas declare id
\* unique, so an insert of a second document with an id fails (E11000).
Matching(coll, id) == {d \in coll : d.id = id}

\* a findOne that finds nothing
FoundNever(coll, id) == FALSE

\* Model.findOne({ id }): the document found is truthy, null is not
Found(coll, id) == Matching(coll, id) # {}

\* an update that adds the index to the index stored
UpdateOneImageAdds(coll, id, index, thumb) ==
    IF Matching(coll, id) = {}
    THEN coll
    ELSE LET d == CHOOSE x \in Matching(coll, id) : TRUE
         IN  (coll \ {d}) \cup {[id |-> id, index |-> d.index + index, thumbnail |-> thumb]}

\* an update that adds a document and keeps the one it found
UpdateOneImageInserts(coll, id, index, thumb) ==
    coll \cup {[id |-> id, index |-> index, thumbnail |-> thumb]}

\* ImageModel.updateOne({ id }, { index, thumbnail }): the first match is
\* updated in place, no match changes nothing
UpdateOneImage(coll, id, index, thumb) ==
    IF Matching(coll, id) = {}
    THEN coll
    ELSE LET d == CHOOSE x \in Matching(coll, id) : TRUE
         IN  (coll \ {d}) \cup {[id |-> id, index |-> index, thumbnail |-> thumb]}

\* ImageModel.create({ id, index, thumbnail }), when the unique index lets it
CreateImage(coll, id, index, thumb) ==
    coll \cup {[id |-> id, index |-> index, thumbnail |-> thumb]}

\* a deleteOne without its filter: it deletes an entry, whatever its id
DeleteOneFailedAny(coll, id) ==
    IF coll = {} THEN coll ELSE coll \ {CHOOSE x \in coll : TRUE}

\* a deleteOne that deletes nothing
DeleteOneFailedKeeps(coll, id) == coll

\* FailedImageModel.deleteOne({ id })
DeleteOneFailed(coll, id) ==
    IF Matching(coll, id) = {}
    THEN coll
    ELSE coll \ {CHOOSE x \in Matching(coll, id) : TRUE}

\* an upsert with $inc: { attempts: 2 }
UpsertFailureIncTwo(coll, id, index, url, error, now) ==
    LET old == Matching(coll, id)
        d == CHOOSE x \in old : TRUE
        attempts == IF old = {} THEN 2 ELSE d.attempts + 2
        doc == [id |-> id, index |-> index, url |-> url, error |-> error,
                attempts |-> attempts, lastAttempt |-> now]
    IN  IF old = {} THEN coll \cup {doc} ELSE (coll \ {d}) \cup {doc}

\* an upsert that sets attempts instead of incrementing it
UpsertFailureSetsOne(coll, id, index, url, error, now) ==
    (coll \ Matching(coll, id))
        \cup {[id |-> id, index |-> index, url |-> url, error |-> error,
               attempts |-> 1, lastAttempt |-> now]}

\* FailedImageModel.findOneAndUpdate({ id }, { id, index, url, error,
\* $inc: { attempts: 1 }, lastAttempt }, { upsert: true }): the plain fields
\* are $set; $inc adds 1 to attempts, which starts from 0 on an insert.
UpsertFailure(coll, id, index, url, error, now) ==
    LET old == Matching(coll, id)
        d == CHOOSE x \in old : TRUE
        attempts == IF old = {} THEN 1 ELSE d.attempts + 1
        doc == [id |-> id, index |-> index, url |-> url, error |-> error,
                attempts |-> attempts, lastAttempt |-> now]
    IN  IF old = {} THEN coll \cup {doc} ELSE (coll \ {d}) \cup {doc}

\* a query with $lte for $lt
FindUpTo(coll, maxAttempts) == {d \in coll : d.attempts <= maxAttempts}

\* FailedImageModel.find({ attempts: { $lt: maxAttempts } })
FindBelow(coll, maxAttempts) == {d \in coll : d.attempts < maxAttempts}

\* the orders in which a query can return the documents of S
Orders(S) ==
    {s \in [1..Cardinality(S) -> S] : \A i, j \in 1..Cardinality(S) : i # j => s[i] # s[j]}

\* getFailedImages: every document, latest lastAttempt first
GetFailedImages(coll) ==
    {s \in Orders(coll) : \A i, j \in 1..Len(s) : i < j => s[i].lastAttempt >= s[j].lastAttempt}

\* failedImages.map(item => ({ id, index: item.index.toString(), url }))
RetryRow(item) == [id |-> item.id, index |-> NumberToString(item.index), url |-> item.url]

\* the thumbnail sharp makes of what url serves
Thumbnail(url) == [of |-> url]

\* `Failed to process thumbnail for ID ${id}: ${errorMessage}`
ThumbnailError(id) == [src |-> "processThumbnail", id |-> id]

\* the message of a rejected store operation
StoreError(id) == [src |-> "store", id |-> id]

\* ------------------------------------------------------------- inputs
IdA == <<"a">>
IdB == <<"b">>
Ids == {IdA, IdB}

UrlA == <<"h", "t", "t", "p", ":", "/", "/", "x", "/", "a">>
UrlB == <<"h", "t", "t", "p", ":", "/", "/", "x", "/", "b">>
NotAUrl == <<"n", "o", "-", "u", "r", "l">>

\* the well-formed raw rows a file is made of: two ids, one of them twice
\* with another index and url
RawRows ==
    { [id |-> IdA, url |-> UrlA, index |-> <<"1">>],
      [id |-> IdB, url |-> UrlB, index |-> <<"2">>],
      [id |-> IdA, url |-> UrlB, index |-> <<"2">>] }

\* raw rows readCSV drops: a url that does not parse, an index without a
\* digit, no id
BadRows ==
    { [id |-> IdB, url |-> NotAUrl, index |-> <<"1">>],
      [id |-> IdB, url |-> UrlB, index |-> <<"x">>],
      [id |-> <<>>, url |-> UrlA, index |-> <<"1">>] }

\* a raw row whose index begins with digits and goes on with something else
LenientRows == { [id |-> IdB, url |-> UrlB, index |-> <<"2", "x">>] }

HeaderPlain == <<FieldId, FieldUrl, FieldIndex>>

\* upper case, padding, another column order and a column nobody reads
HeaderMixed == << <<" ", "I", "n", "d", "e", "x">>, <<"U", "R", "L", " ">>,
                  <<"n", "o", "t", "e">>, <<"I", "D">> >>

\* the line of raw row r under header h
LineOf(h, r) ==
    [i \in 1..Len(h) |->
        LET name == ToLowerCase(Trim(h[i]))
        IN  IF name = FieldId THEN r.id
            ELSE IF name = FieldUrl THEN r.url
            ELSE IF name = FieldIndex THEN <<" ">> \o r.index
            ELSE <<"-">>]

BlankLine == << <<>> >>

SeqsUpTo(S, n) == UNION {[1..k -> S] : k \in 0..n}

CsvFile(h, rs) ==
    [exists |-> TRUE, size |-> maxFileSize,
     lines |-> <<h>> \o [i \in 1..Len(rs) |-> LineOf(h, rs[i])] \o <<BlankLine>>]

MissingFile == [exists |-> FALSE, size |-> 0, lines |-> <<>>]

OversizedFile ==
    [exists |-> TRUE, size |-> maxFileSize + 1,
     lines |-> <<HeaderPlain, LineOf(HeaderPlain, CHOOSE r \in RawRows : r.id = IdA)>>]

EmptyFile == [exists |-> TRUE, size |-> 0, lines |-> <<BlankLine>>]

NoIndexFile ==
    [exists |-> TRUE, size |-> maxFileSize,
     lines |-> << <<FieldId, FieldUrl>>, <<IdA, UrlA>> >>]

SourceErrorFiles == {MissingFile, OversizedFile, EmptyFile, NoIndexFile}

Files ==
    SourceErrorFiles
    \cup {CsvFile(HeaderPlain, rs) : rs \in SeqsUpTo(RawRows, MaxRows)}
    \cup {CsvFile(HeaderMixed, rs) : rs \in SeqsUpTo(RawRows \cup BadRows \cup LenientRows, 1)}

\* -------------------------------------------------------------- state
VARIABLES
    images,          \* the images collection
    failed,          \* the failed_images collection
    file,            \* data/data.csv
    batchSize,       \* config.batchSize
    pc,              \* where the running call stands
    caller,          \* "main": start() called by main(); "retry": retryFailed()
    passes,          \* calls begun so far; also the clock of lastAttempt
    conn,            \* the mongoose connection: "closed" or "open"
    cleaned,         \* cleanup() has completed in this process
    exitCode,        \* the status the process exited with, -1 while it runs
    rows,            \* processImages: rows
    chunks,          \* processImages: chunks
    ci,              \* the chunk being processed
    ri,              \* the row of it being processed
    successCount,    \* processChunk: successCount
    processedCount,  \* processImages: processedCount
    failedCount,     \* processImages: failedCount
    cutoff,          \* retryFailed: maxAttempts
    result,          \* the ProcessingResult returned
    progress,        \* the progress lines logged by processImages
    \* history, read by the properties only
    images0,         \* images when the call began
    failed0,         \* failed_images when the call began
    outcome,         \* per processed row of the call, whether it succeeded
    fetched,         \* the ids processThumbnail was called for in the call
    prev,            \* the call before this one, as it ended
    ledger,          \* per id, the failures caught since its last success
    \* two passes at once
    upserts,         \* per pass, the failure-ledger upsert it has in flight
    \* passes over the same rows, compared
    fates,           \* per row, where its try block throws and whether the
                     \* catch block records it
    order,           \* another order of the rows
    stop,            \* where a pass is interrupted
    ran              \* what each pass run so far has left

vars == <<images, failed, file, batchSize, pc, caller, passes, conn, cleaned,
          exitCode, rows, chunks, ci, ri, successCount, processedCount,
          failedCount, cutoff, result, progress, images0, failed0, outcome,
          fetched, prev, ledger, upserts, fates, order, stop, ran>>

storeVars == <<images, failed>>
trialVars == <<fates, order, stop, ran>>
envVars == <<file, batchSize, upserts, trialVars>>
procVars == <<conn, cleaned, exitCode>>
loopVars == <<ci, ri, successCount, processedCount, failedCount, result, progress>>
histVars == <<images0, failed0, prev>>

NoError == [src |-> "", id |-> <<>>]
ZeroResult == [total |-> 0, processed |-> 0, failed |-> 0]
NoLedger == [n |-> 0, index |-> 0, url |-> <<>>, error |-> NoError, at |-> 0,
             lost |-> FALSE]
NoPrev == [ok |-> FALSE, rows |-> <<>>, images |-> {}, failed |-> {}]

\* the passes that run at the same time
Passes == {1, 2}

\* no pass has an upsert in flight
NoUpserts == [w \in Passes |-> [pc |-> "none", row |-> <<>>, error |-> NoError]]

\* no pass is interrupted
NoStop == [row |-> 0, at |-> "none", applied |-> FALSE]

\* one pass, not compared with another
NoTrial ==
    /\ fates = <<>>
    /\ order = <<>>
    /\ stop = NoStop
    /\ ran = <<>>

\* the row processChunk is at
Row == chunks[ci][ri]

\* no call is running
Quiescent ==
    \/ pc \in {"idle", "exited"}
    \/ caller = "retry" /\ pc \in {"resolved", "rejected"}

\* the call that ended last returned a ProcessingResult
Returned == pc = "resolved" \/ (pc = "exited" /\ exitCode = 0)

\* every row of the call was processed and succeeded
AllSucceeded == Len(outcome) = Len(rows) /\ \A i \in 1..Len(outcome) : outcome[i]

\* what a run over an earlier file has left in the collections: the image of
\* IdA, and IdB failed once
SeededImages == {[id |-> IdA, index |-> 1, thumbnail |-> Thumbnail(UrlA)]}

SeededFailed ==
    {[id |-> IdB, index |-> 2, url |-> UrlB, error |-> ThumbnailError(IdB),
      attempts |-> 1, lastAttempt |-> 0]}

\* The collections are empty at first; a file with a source error is also
\* met with the collections an earlier file has left.
Init ==
    /\ file \in Files
    /\ \/ /\ images = {}
          /\ failed = {}
       \/ /\ file \in SourceErrorFiles
          /\ images = SeededImages
          /\ failed = SeededFailed
    /\ batchSize \in 0..MaxBatchSize
    /\ pc = "idle"
    /\ caller = "none"
    /\ passes = 0
    /\ conn = "closed"
    /\ cleaned = FALSE
    /\ exitCode = -1
    /\ rows = <<>>
    /\ chunks = <<>>
    /\ ci = 0
    /\ ri = 0
    /\ successCount = 0
    /\ processedCount = 0
    /\ failedCount = 0
    /\ cutoff = DefaultMaxAttempts
    /\ result = ZeroResult
    /\ progress = <<>>
    /\ images0 = images
    /\ failed0 = failed
    /\ outcome = <<>>
    /\ fetched = {}
    /\ prev = NoPrev
    /\ ledger = [id \in Ids |->
                    IF Found(failed, id)
                    THEN LET d == CHOOSE x \in Matching(failed, id) : TRUE
                         IN  [n |-> d.attempts, index |-> d.index, url |-> d.url,
                              error |-> d.error, at |-> d.lastAttempt, lost |-> FALSE]
                    ELSE NoLedger]
    /\ upserts = NoUpserts
    /\ NoTrial

\* what a beginning call resets, and what it remembers of the call before
Begin(who) ==
    /\ Quiescent
    /\ passes < MaxPasses
    /\ passes' = passes + 1
    /\ caller' = who
    /\ chunks' = <<>>
    /\ ci' = 0
    /\ ri' = 0
    /\ successCount' = 0
    /\ processedCount' = 0
    /\ failedCount' = 0
    /\ result' = ZeroResult
    /\ progress' = <<>>
    /\ images0' = images
    /\ failed0' = failed
    /\ outcome' = <<>>
    /\ fetched' = {}
    /\ prev' = [ok |-> passes > 0 /\ Returned /\ AllSucceeded, rows |-> rows,
                images |-> images, failed |-> failed]

\* ------------------------------------------------------ entry point
\* main(): processor = new ImageProcessor(); processor.start()
Main ==
    /\ Begin("main")
    /\ pc' = "initialize"
    /\ rows' = <<>>
    /\ cutoff' = DefaultMaxAttempts
    /\ conn' = "closed"
    /\ cleaned' = FALSE
    /\ exitCode' = -1
    /\ UNCHANGED <<storeVars, envVars, ledger>>

\* an initialize that does not compare the size of the file
InitializeAnySize ==
    /\ pc = "initialize"
    /\ \E connected \in BOOLEAN :
          /\ conn' = IF connected THEN "open" ELSE conn
          /\ pc' = IF connected /\ file.exists THEN "readCSV" ELSE "rejected"
    /\ UNCHANGED <<storeVars, envVars, caller, passes, cleaned, exitCode, rows, chunks,
                   loopVars, cutoff, histVars, outcome, fetched, ledger>>

\* initialize(): connect, stat the file, compare its size with maxFileSize
Initialize ==
    /\ pc = "initialize"
    /\ \E connected \in BOOLEAN :
          /\ conn' = IF connected THEN "open" ELSE conn
          /\ pc' = IF connected /\ file.exists /\ ~(file.size > maxFileSize)
                   THEN "readCSV"
                   ELSE "rejected"
    /\ UNCHANGED <<storeVars, envVars, caller, passes, cleaned, exitCode, rows, chunks,
                   loopVars, cutoff, histVars, outcome, fetched, ledger>>

\* readCSV(): the validated rows, or an error for an empty file or a header
\* without id, url or index
ReadCSV ==
    /\ pc = "readCSV"
    /\ LET r == ReadCSVResult(file.lines)
       IN  /\ pc' = IF r.ok THEN "processImages" ELSE "rejected"
           /\ rows' = r.rows
    /\ UNCHANGED <<storeVars, envVars, caller, passes, procVars, chunks, loopVars,
                   cutoff, histVars, outcome, fetched, ledger>>

\* main().catch: process.exit(1) ends the process at once, so the handler of
\* .finally never runs
MainCatch ==
    /\ caller = "main"
    /\ pc = "rejected"
    /\ exitCode' = 1
    /\ pc' = "exited"
    /\ UNCHANGED <<storeVars, envVars, caller, passes, conn, cleaned, rows, chunks,
                   loopVars, cutoff, histVars, outcome, fetched, ledger>>

\* main().finally after a result: cleanup() disconnects (an error of
\* disconnect is logged and swallowed), then process.exit(0)
MainFinally ==
    /\ caller = "main"
    /\ pc = "resolved"
    /\ \E disconnected \in BOOLEAN :
          conn' = IF disconnected THEN "closed" ELSE conn
    /\ cleaned' = TRUE
    /\ exitCode' = 0
    /\ pc' = "exited"
    /\ UNCHANGED <<storeVars, envVars, caller, passes, rows, chunks, loopVars,
                   cutoff, histVars, outcome, fetched, ledger>>

\* ------------------------------------------------------------- retry
\* a retryFailed that queries without the cutoff
RetryFailedAll ==
    /\ Begin("retry")
    /\ \E maxAttempts \in 1..MaxCutoff :
          /\ cutoff' = maxAttempts
          /\ \E found \in BOOLEAN :
                IF ~found
                THEN /\ pc' = "rejected"
                     /\ rows' = <<>>
                ELSE \E failedImages \in Orders(failed) :
                        /\ rows' = [i \in 1..Len(failedImages) |-> RetryRow(failedImages[i])]
                        /\ pc' = IF Len(failedImages) = 0 THEN "resolved" ELSE "processImages"
    /\ UNCHANGED <<storeVars, envVars, procVars, ledger>>

\* retryFailed(maxAttempts): the entries below the cutoff, in the order the
\* query returns them, become the rows of a pass; none gives a zero result
RetryFailed ==
    /\ Begin("retry")
    /\ \E maxAttempts \in 1..MaxCutoff :
          /\ cutoff' = maxAttempts
          /\ \E found \in BOOLEAN :
                IF ~found
                THEN /\ pc' = "rejected"
                     /\ rows' = <<>>
                ELSE \E failedImages \in Orders(FindBelow(failed, maxAttempts)) :
                        /\ rows' = [i \in 1..Len(failedImages) |-> RetryRow(failedImages[i])]
                        /\ pc' = IF Len(failedImages) = 0 THEN "resolved" ELSE "processImages"
    /\ UNCHANGED <<storeVars, envVars, procVars, ledger>>

\* ------------------------------------------------------------- a pass
\* processImages, up to the first row: the chunks; no chunk, no loop
ProcessImages ==
    /\ pc = "processImages"
    /\ chunks' = Chunk(rows, batchSize)
    /\ IF chunks' = <<>>
       THEN /\ pc' = "resolved"
            /\ result' = [total |-> Len(rows), processed |-> 0, failed |-> 0]
            /\ UNCHANGED <<ci, ri>>
       ELSE /\ pc' = "processChunk"
            /\ ci' = 1
            /\ ri' = 1
            /\ UNCHANGED result
    /\ UNCHANGED <<storeVars, envVars, caller, passes, procVars, rows, successCount,
                   processedCount, failedCount, progress, cutoff, histVars,
                   outcome, fetched, ledger>>

\* where an operation of the try block of a row can throw
FailPoints == {"none", "findOne", "processThumbnail", "write", "deleteOne"}

\* a try block that stores an empty thumbnail when the fetch fails
TryRowPlaceholder(imgs, fl, row, fails) ==
    LET existingImage == Found(imgs, row.id)
        thumbnail == Thumbnail(row.url)
        written == IF existingImage
                   THEN UpdateOneImage(imgs, row.id, RowIndex(row), thumbnail)
                   ELSE CreateImage(imgs, row.id, RowIndex(row), thumbnail)
        placeholder == IF existingImage
                       THEN UpdateOneImage(imgs, row.id, RowIndex(row), Thumbnail(<<>>))
                       ELSE CreateImage(imgs, row.id, RowIndex(row), Thumbnail(<<>>))
    IN  CASE fails = "findOne" ->
               [ok |-> FALSE, images |-> imgs, failed |-> fl, fetched |-> FALSE,
                error |-> StoreError(row.id)]
          [] fails = "processThumbnail" ->
               [ok |-> FALSE, images |-> placeholder, failed |-> fl, fetched |-> TRUE,
                error |-> ThumbnailError(row.id)]
          [] fails = "write" ->
               [ok |-> FALSE, images |-> imgs, failed |-> fl, fetched |-> TRUE,
                error |-> StoreError(row.id)]
          [] fails = "deleteOne" ->
               [ok |-> FALSE, images |-> written, failed |-> fl, fetched |-> TRUE,
                error |-> StoreError(row.id)]
          [] OTHER ->
               [ok |-> TRUE, images |-> written, failed |-> DeleteOneFailed(fl, row.id),
                fetched |-> TRUE, error |-> NoError]

\* the try block of processChunk for one row, throwing at `fails`: findOne,
\* processThumbnail, updateOne or create, deleteOne, successCount++
TryRow(imgs, fl, row, fails) ==
    LET existingImage == Found(imgs, row.id)
        thumbnail == Thumbnail(row.url)
        written == IF existingImage
                   THEN UpdateOneImage(imgs, row.id, RowIndex(row), thumbnail)
                   ELSE CreateImage(imgs, row.id, RowIndex(row), thumbnail)
    IN  CASE fails = "findOne" ->
               [ok |-> FALSE, images |-> imgs, failed |-> fl, fetched |-> FALSE,
                error |-> StoreError(row.id)]
          [] fails = "processThumbnail" ->
               [ok |-> FALSE, images |-> imgs, failed |-> fl, fetched |-> TRUE,
                error |-> ThumbnailError(row.id)]
          [] fails = "write" ->
               [ok |-> FALSE, images |-> imgs, failed |-> fl, fetched |-> TRUE,
                error |-> StoreError(row.id)]
          [] fails = "deleteOne" ->
               [ok |-> FALSE, images |-> written, failed |-> fl, fetched |-> TRUE,
                error |-> StoreError(row.id)]
          [] OTHER ->
               [ok |-> TRUE, images |-> written, failed |-> DeleteOneFailed(fl, row.id),
                fetched |-> TRUE, error |-> NoError]

\* a catch block that only logs
CatchRowLogsOnly(fl, row, errorMessage, now) == fl

\* the catch block of processChunk: the failure is upserted into failed_images
CatchRow(fl, row, errorMessage, now) ==
    UpsertFailure(fl, row.id, RowIndex(row), row.url, errorMessage, now)

\* the end of a row, s telling whether it succeeded: the next row of the
\* chunk; after the last one the counts are added up and the progress line
\* is logged, then the next chunk begins or the result is returned
EndRow(s) ==
    LET sc == IF s THEN successCount + 1 ELSE successCount
        len == Len(chunks[ci])
        p == processedCount + sc
        f == failedCount + (len - sc)
    IN  /\ outcome' = Append(outcome, s)
        /\ IF ri < len
           THEN /\ ri' = ri + 1
                /\ successCount' = sc
                /\ pc' = "processChunk"
                /\ UNCHANGED <<ci, processedCount, failedCount, result, progress>>
           ELSE /\ processedCount' = p
                /\ failedCount' = f
                /\ progress' = Append(progress,
                       [batch |-> ci, batches |-> Len(chunks), processed |-> p,
                        total |-> Len(rows), failed |-> f])
                /\ IF ci < Len(chunks)
                   THEN /\ ci' = ci + 1
                        /\ ri' = 1
                        /\ successCount' = 0
                        /\ pc' = "processChunk"
                        /\ UNCHANGED result
                   ELSE /\ pc' = "resolved"
                        /\ successCount' = sc
                        /\ result' = [total |-> Len(rows), processed |-> p, failed |-> f]
                        /\ UNCHANGED <<ci, ri>>

\* one turn of the loop of processChunk: the try block, and when it throws
\* the catch block, whose own rejection nothing catches: it ends
\* processChunk and processImages
ProcessRow ==
    /\ pc = "processChunk"
    /\ \E fails \in FailPoints, recorded \in BOOLEAN :
          LET t == TryRow(images, failed, Row, fails)
          IN  /\ images' = t.images
              /\ fetched' = IF t.fetched THEN fetched \cup {Row.id} ELSE fetched
              /\ IF t.ok
                 THEN /\ recorded
                      /\ failed' = t.failed
                      /\ ledger' = [ledger EXCEPT ![Row.id] = NoLedger]
                      /\ EndRow(TRUE)
                 ELSE IF recorded
                 THEN /\ failed' = CatchRow(t.failed, Row, t.error, passes)
                      /\ ledger' = [ledger EXCEPT ![Row.id] =
                                       [n |-> @.n + 1, index |-> RowIndex(Row),
                                        url |-> Row.url, error |-> t.error,
                                        at |-> passes, lost |-> @.lost]]
                      /\ EndRow(FALSE)
                 ELSE /\ failed' = t.failed
                      /\ ledger' = [ledger EXCEPT ![Row.id].lost = TRUE,
                                                   ![Row.id].error = t.error]
                      /\ pc' = "rejected"
                      /\ UNCHANGED <<loopVars, outcome>>
    /\ UNCHANGED <<envVars, caller, passes, procVars, rows, chunks, cutoff, histVars>>

Next ==
    \/ Main
    \/ Initialize
    \/ ReadCSV
    \/ MainCatch
    \/ MainFinally
    \/ RetryFailed
    \/ ProcessImages
    \/ ProcessRow

Spec == Init /\ [][Next]_vars

\* ------------------------------------------- two passes, one upsert each
\* no call of start() or retryFailed() is running or has run
Idle ==
    /\ pc = "idle"
    /\ caller = "none"
    /\ passes = 0
    /\ conn = "closed"
    /\ cleaned = FALSE
    /\ exitCode = -1
    /\ chunks = <<>>
    /\ ci = 0
    /\ ri = 0
    /\ successCount = 0
    /\ processedCount = 0
    /\ failedCount = 0
    /\ cutoff = DefaultMaxAttempts
    /\ result = ZeroResult
    /\ progress = <<>>
    /\ outcome = <<>>
    /\ fetched = {}
    /\ prev = NoPrev
    /\ ledger = [id \in Ids |-> NoLedger]

\* the variables of a call of start() or retryFailed()
callVars == <<pc, caller, passes, procVars, rows, chunks, loopVars, cutoff, outcome,
              fetched, prev>>

\* a failed_images entry of id with k attempts
FailedEntry(id, k) ==
    [id |-> id, index |-> 1, url |-> UrlA, error |-> ThumbnailError(id),
     attempts |-> k, lastAttempt |-> 0]

\* Two passes have each caught the failure of a row of the same id and are
\* about to record it; failed_images has no entry for the id, or one.
InitUpsert ==
    /\ Idle
    /\ file = MissingFile
    /\ batchSize = 1
    /\ rows = <<>>
    /\ images = {}
    /\ \E id \in Ids :
          /\ failed \in {{}} \cup {{FailedEntry(id, k)} : k \in 1..MaxCutoff}
          /\ upserts \in [Passes -> {[pc |-> "call", row |-> r, error |-> e] :
                                        r \in {x \in RawRows : x.id = id},
                                        e \in {ThumbnailError(id), StoreError(id)}}]
    /\ images0 = images
    /\ failed0 = failed
    /\ NoTrial

\* findOneAndUpdate({ id }, ..., { upsert: true }) of pass w reaches the store:
\* a document that matches is updated in one step of the store; when none
\* matches, the store goes on to insert one
UpsertMatch(w) ==
    /\ upserts[w].pc = "call"
    /\ LET u == upserts[w]
       IN  IF Found(failed, u.row.id)
           THEN /\ failed' = CatchRow(failed, u.row, u.error, w)
                /\ upserts' = [upserts EXCEPT ![w].pc = "done"]
           ELSE /\ upserts' = [upserts EXCEPT ![w].pc = "insert"]
                /\ UNCHANGED failed
    /\ UNCHANGED <<images, file, batchSize, trialVars, callVars, histVars, ledger>>

\* the insert of the upsert of pass w: when the other pass has inserted the
\* id meanwhile, the unique index of id refuses the document (E11000), and
\* the store either runs the upsert again, as an update, or hands the error
\* to the caller
UpsertInsert(w) ==
    /\ upserts[w].pc = "insert"
    /\ LET u == upserts[w]
       IN  \E again \in BOOLEAN :
              IF ~Found(failed, u.row.id) \/ again
              THEN /\ failed' = CatchRow(failed, u.row, u.error, w)
                   /\ upserts' = [upserts EXCEPT ![w].pc = "done"]
              ELSE /\ upserts' = [upserts EXCEPT ![w].pc = "rejected"]
                   /\ UNCHANGED failed
    /\ UNCHANGED <<images, file, batchSize, trialVars, callVars, histVars, ledger>>

NextUpsert == \E w \in Passes : UpsertMatch(w) \/ UpsertInsert(w)

SpecUpsert == InitUpsert /\ [][NextUpsert]_vars

\* ------------------------------------------- a chunk in two orders
\* what a row can meet: where its try block throws, and whether the upsert
\* of the catch block goes through
Fates ==
    {f \in [fails : FailPoints, recorded : BOOLEAN] : f.fails = "none" => f.recorded}

RECURSIVE RunChunk(_, _, _, _, _)
\* processChunk(rs) on the collections imgs and fl, the k-th row meeting
\* fs[k], the first row at time now: what it leaves in the collections, the
\* successCount it returns, or that it was rejected
RunChunk(imgs, fl, rs, fs, now) ==
    IF rs = <<>>
    THEN [images |-> imgs, failed |-> fl, successCount |-> 0, rejected |-> FALSE]
    ELSE LET row == Head(rs)
             t == TryRow(imgs, fl, row, Head(fs).fails)
         IN  IF t.ok
             THEN LET rest == RunChunk(t.images, t.failed, Tail(rs), Tail(fs), now + 1)
                  IN  [rest EXCEPT !.successCount = @ + 1]
             ELSE IF Head(fs).recorded
             THEN RunChunk(t.images, CatchRow(t.failed, row, t.error, now),
                           Tail(rs), Tail(fs), now + 1)
             ELSE [images |-> t.images, failed |-> t.failed, successCount |-> 0,
                   rejected |-> TRUE]

\* s in the order p
Reordered(s, p) == [i \in 1..Len(s) |-> s[p[i]]]

IdC == <<"c">>
UrlC == <<"h", "t", "t", "p", ":", "/", "/", "x", "/", "c">>

\* the rows a chunk is made of: those of RawRows and one of a third id
ChunkRows == RawRows \cup {[id |-> IdC, url |-> UrlC, index |-> <<"3">>]}

\* A chunk of rows, what each row meets, and another order of the rows; the
\* collections are empty or hold what an earlier run has left.
InitOrder ==
    /\ Idle
    /\ file = MissingFile
    /\ batchSize = 1
    /\ \/ images = {} /\ failed = {}
       \/ images = SeededImages /\ failed = SeededFailed
    /\ images0 = images
    /\ failed0 = failed
    /\ upserts = NoUpserts
    /\ rows \in SeqsUpTo(ChunkRows, MaxChunkRows)
    /\ fates \in [1..Len(rows) -> Fates]
    /\ order \in Orders(1..Len(rows))
    /\ stop = NoStop
    /\ ran = <<>>

\* processChunk(rows)
ProcessChunkInOrder ==
    /\ Len(ran) = 0
    /\ ran' = <<RunChunk(images, failed, rows, fates, 1)>>
    /\ UNCHANGED <<storeVars, file, batchSize, upserts, fates, order, stop, callVars,
                   histVars, ledger>>

\* processChunk of the same rows in the other order, on the same collections
ProcessChunkReordered ==
    /\ Len(ran) = 1
    /\ ran' = Append(ran, RunChunk(images, failed, Reordered(rows, order),
                                   Reordered(fates, order), 1))
    /\ UNCHANGED <<storeVars, file, batchSize, upserts, fates, order, stop, callVars,
                   histVars, ledger>>

NextOrder == ProcessChunkInOrder \/ ProcessChunkReordered

SpecOrder == InitOrder /\ [][NextOrder]_vars

\* ------------------------------------- a pass interrupted and run again
RECURSIVE RunChunks(_, _, _, _, _)
\* the loop of processImages over the chunks cs, the rows of chunk k meeting
\* fcs[k]: what it leaves in the collections and the counts it has added
\* up, or that a chunk was rejected
RunChunks(imgs, fl, cs, fcs, now) ==
    IF cs = <<>>
    THEN [images |-> imgs, failed |-> fl, processedCount |-> 0, failedCount |-> 0,
          rejected |-> FALSE]
    ELSE LET currentChunk == Head(cs)
             c == RunChunk(imgs, fl, currentChunk, Head(fcs), now)
         IN  IF c.rejected
             THEN [images |-> c.images, failed |-> c.failed, processedCount |-> 0,
                   failedCount |-> 0, rejected |-> TRUE]
             ELSE LET rest == RunChunks(c.images, c.failed, Tail(cs), Tail(fcs),
                                        now + Len(currentChunk))
                  IN  [rest EXCEPT !.processedCount = @ + c.successCount,
                                   !.failedCount = @ + Len(currentChunk) - c.successCount]

\* processImages(rs) with batches of size, row k meeting fs[k]
RunImages(imgs, fl, rs, fs, size, now) ==
    RunChunks(imgs, fl, Chunk(rs, size), Chunk(fs, size), now)

\* the store operations and the fetch processChunk awaits for a row
Awaits == {"findOne", "processThumbnail", "write", "deleteOne", "upsert"}

\* a row that meets fate f gets as far as awaiting `at`
Reaches(f, at) ==
    CASE at = "findOne" -> TRUE
      [] at = "processThumbnail" -> f.fails # "findOne"
      [] at = "write" -> f.fails \notin {"findOne", "processThumbnail"}
      [] at = "deleteOne" -> f.fails \in {"none", "deleteOne"}
      [] OTHER -> f.fails # "none"

\* The process ends while processChunk awaits `at` for row: what was
\* awaited before has taken effect, and the operation awaited has reached
\* the store (applied) or not.
PartialRow(imgs, fl, row, f, at, applied, now) ==
    LET written == TryRow(imgs, fl, row, "deleteOne").images
        t == TryRow(imgs, fl, row, f.fails)
    IN  CASE at \in {"findOne", "processThumbnail"} ->
               [images |-> imgs, failed |-> fl]
          [] at = "write" ->
               [images |-> IF applied /\ f.fails # "write" THEN written ELSE imgs,
                failed |-> fl]
          [] at = "deleteOne" ->
               [images |-> written,
                failed |-> IF applied /\ f.fails = "none"
                           THEN DeleteOneFailed(fl, row.id)
                           ELSE fl]
          [] OTHER ->
               [images |-> t.images,
                failed |-> IF applied /\ f.recorded
                           THEN CatchRow(t.failed, row, t.error, now)
                           ELSE t.failed]

\* where a pass over rs with batches of size can be interrupted
Stops(rs, fs, size) ==
    IF Chunk(rs, size) = <<>>
    THEN {NoStop}
    ELSE {st \in [row : 1..Len(rs), at : Awaits, applied : BOOLEAN] :
             Reaches(fs[st.row], st.at)}

\* The rows of a file, what each row meets in every run, the batch size and
\* a point of interruption; the collections are empty or hold what an
\* earlier run has left.
InitResume ==
    /\ Idle
    /\ file = MissingFile
    /\ batchSize \in 0..MaxBatchSize
    /\ \/ images = {} /\ failed = {}
       \/ images = SeededImages /\ failed = SeededFailed
    /\ images0 = images
    /\ failed0 = failed
    /\ upserts = NoUpserts
    /\ rows \in SeqsUpTo(RawRows, MaxResumeRows)
    /\ fates \in [1..Len(rows) -> Fates]
    /\ order = <<>>
    /\ stop \in Stops(rows, fates, batchSize)
    /\ ran = <<>>

\* processImages(rows), not interrupted
ProcessImagesThrough ==
    /\ Len(ran) = 0
    /\ ran' = <<RunImages(images, failed, rows, fates, batchSize, 1)>>
    /\ UNCHANGED <<storeVars, file, batchSize, upserts, fates, order, stop, callVars,
                   histVars, ledger>>

\* processImages(rows) on the same collections, as far as the row before
\* the one it is interrupted in
ProcessImagesUpTo ==
    /\ Len(ran) = 1
    /\ ran' = Append(ran, RunImages(images, failed, SubSeq(rows, 1, stop.row - 1),
                                    SubSeq(fates, 1, stop.row - 1), batchSize, 1))
    /\ UNCHANGED <<storeVars, file, batchSize, upserts, fates, order, stop, callVars,
                   histVars, ledger>>

\* the process ends inside row stop.row; the row is not reached when there
\* is no chunk or when a row before it was rejected
Interrupt ==
    /\ Len(ran) = 2
    /\ ran' = Append(ran,
                IF stop.row = 0 \/ ran[2].rejected
                THEN [images |-> ran[2].images, failed |-> ran[2].failed]
                ELSE PartialRow(ran[2].images, ran[2].failed, rows[stop.row],
                                fates[stop.row], stop.at, stop.applied, stop.row))
    /\ UNCHANGED <<storeVars, file, batchSize, upserts, fates, order, stop, callVars,
                   histVars, ledger>>

\* processImages(rows) again, on what the interrupted pass has left
ProcessImagesAgain ==
    /\ Len(ran) = 3
    /\ ran' = Append(ran, RunImages(ran[3].images, ran[3].failed, rows, fates,
                                    batchSize, Len(rows) + 1))
    /\ UNCHANGED <<storeVars, file, batchSize, upserts, fates, order, stop, callVars,
                   histVars, ledger>>

NextResume ==
    \/ ProcessImagesThrough
    \/ ProcessImagesUpTo
    \/ Interrupt
    \/ ProcessImagesAgain

SpecResume == InitResume /\ [][NextResume]_vars

\* ------------------------------------------------- retries only
\* the contents failed_images can have: for every id no entry or one, with
\* 1 to MaxCutoff + 1 attempts
AnyFailed ==
    {UNION {c[id] : id \in Ids} :
        c \in [Ids -> {{}} \cup {{FailedEntry(id, k)} : id \in Ids, k \in 1..(MaxCutoff + 1)}]}

\* failed_images has any contents with one entry per id at most, images is
\* empty or holds what an earlier run has left, and no call has been made
InitRetry ==
    /\ Idle
    /\ file = MissingFile
    /\ batchSize \in 0..MaxBatchSize
    /\ rows = <<>>
    /\ images \in {{}, SeededImages}
    /\ failed \in {c \in AnyFailed : \A d, e \in c : d.id = e.id => d = e}
    /\ images0 = images
    /\ failed0 = failed
    /\ upserts = NoUpserts
    /\ NoTrial

\* retryFailed(maxAttempts), with the maxAttempts of the calls before
RetryAgain ==
    /\ RetryFailed
    /\ passes > 0 => cutoff' = cutoff

NextRetry ==
    \/ RetryAgain
    \/ ProcessImages
    \/ ProcessRow

SpecRetry == InitRetry /\ [][NextRetry]_vars

\* ========================================================= properties
\* row i of the call has been processed, and no later processed row of the
\* call has its id
LastOfId(i) == \A j \in (i + 1)..Len(outcome) : rows[j].id # rows[i].id

\* images has an entry for the id of row r with the index of r
InImages(r) == \E d \in images : d.id = r.id /\ d.index = RowIndex(r)

\* failed_images has an entry for the id of row r with attempts >= 1
InFailed(r) == \E d \in failed : d.id = r.id /\ d.attempts >= 1

\* C1, as claimed: after a pass has returned, for every row it processed
\* exactly one of the two holds: images has an entry for the row's id with
\* the row's index, or failed_images has an entry for the id with
\* attempts >= 1; never both, never neither.
C1_ExactlyOne ==
    Returned => \A i \in 1..Len(outcome) : InImages(rows[i]) # InFailed(rows[i])

\* C1, amended: after a pass has returned, the id of every processed row is
\* in images or in failed_images; a row that is the last of its id in the
\* pass and succeeded has its index in images and no failed_images entry,
\* and one that failed has a failed_images entry with attempts >= 1
\* (images may hold its id as well).
C1_FateObservable ==
    Returned =>
        \A i \in 1..Len(outcome) :
            /\ Found(images, rows[i].id) \/ InFailed(rows[i])
            /\ LastOfId(i) /\ outcome[i] =>
                  InImages(rows[i]) /\ ~Found(failed, rows[i].id)
            /\ LastOfId(i) /\ ~outcome[i] => InFailed(rows[i])

\* a pass has returned with a succeeded and a failed row, each the last
\* of its id, the failed one with an entry in both collections
C1_Witness ==
    /\ Returned
    /\ \E i, j \in 1..Len(outcome) :
          /\ LastOfId(i) /\ outcome[i]
          /\ LastOfId(j) /\ ~outcome[j]
          /\ InImages(rows[j]) /\ InFailed(rows[j])

\* C2: the failure of a row never escapes processImages: once the loop over
\* the rows has begun, the call goes on to the next row or returns a
\* result; it is never rejected.
C2_NeverEscapes ==
    ci >= 1 => ~(pc = "rejected" \/ (pc = "exited" /\ exitCode = 1))

\* C3: the ProcessingResult returned has total = processed + failed and
\* total = the number of rows of the pass, whatever batchSize is.
C3_Totals ==
    Returned =>
        /\ result.total = result.processed + result.failed
        /\ result.total = Len(rows)

\* C4: the first failure of an id without an entry creates one with
\* attempts = 1, every further failure without a success in between adds
\* exactly 1 and overwrites error, index and url: after k failures recorded
\* since the last success there is exactly one entry, with attempts = k and
\* the values of the k-th failure.
C4_Accumulation ==
    \A id \in Ids :
        ~ledger[id].lost =>
            IF ledger[id].n = 0
            THEN Matching(failed, id) = {}
            ELSE Matching(failed, id) =
                    {[id |-> id, index |-> ledger[id].index, url |-> ledger[id].url,
                      error |-> ledger[id].error, attempts |-> ledger[id].n,
                      lastAttempt |-> ledger[id].at]}

\* an id has failed three times running, the last time in a later pass than
\* the first and with another error than the thumbnail's
C4_Witness ==
    \E id \in Ids :
        /\ ~ledger[id].lost
        /\ ledger[id].n >= 3
        /\ ledger[id].at = 2
        /\ ledger[id].error = StoreError(id)
        /\ \E d \in failed : d.id = id /\ d.attempts = ledger[id].n

\* C5, as claimed: an id with a failed_images entry of which a row succeeds
\* in a pass has, after the pass, no failed_images entry and an images entry
\* with that row's index and thumbnail.
C5_Recovery ==
    Returned =>
        \A i \in 1..Len(outcome) :
            outcome[i] /\ Found(failed0, rows[i].id) =>
                /\ ~Found(failed, rows[i].id)
                /\ [id |-> rows[i].id, index |-> RowIndex(rows[i]),
                    thumbnail |-> Thumbnail(rows[i].url)] \in images

\* C5, amended: the same of a row that is the last row of its id in the
\* pass.
C5_RecoveryOfLast ==
    Returned =>
        \A i \in 1..Len(outcome) :
            LastOfId(i) /\ outcome[i] /\ Found(failed0, rows[i].id) =>
                /\ ~Found(failed, rows[i].id)
                /\ Matching(images, rows[i].id) =
                      {[id |-> rows[i].id, index |-> RowIndex(rows[i]),
                        thumbnail |-> Thumbnail(rows[i].url)]}

\* a retry pass has returned after the row of an id that had a
\* failed_images entry succeeded and replaced the thumbnail images held
C5_Witness ==
    /\ Returned
    /\ caller = "retry"
    /\ \E i \in 1..Len(outcome) :
          /\ LastOfId(i) /\ outcome[i] /\ Found(failed0, rows[i].id)
          /\ \E d \in images0 : d.id = rows[i].id /\ d.thumbnail # Thumbnail(rows[i].url)

\* C6: a pass over the same rows as the pass before it, every row having
\* succeeded both times, leaves images as the pass before left it, one
\* entry per id, and creates or increments no attempts counter.
C6_Idempotent ==
    Returned /\ AllSucceeded /\ prev.ok /\ prev.rows = rows =>
        /\ images = prev.images
        /\ \A id \in Ids : Cardinality(Matching(images, id)) <= 1
        /\ \A d \in failed : \E e \in prev.failed : e.id = d.id /\ e.attempts >= d.attempts

\* start() has run twice over a file in which an id comes twice, every row
\* succeeding both times
C6_Witness ==
    /\ Returned /\ AllSucceeded /\ prev.ok /\ prev.rows = rows
    /\ Len(rows) >= 2
    /\ \E i, j \in 1..Len(rows) : i # j /\ rows[i].id = rows[j].id
    /\ images # {}

\* the call of retryFailed has queried failed_images
RetryQueried == caller = "retry" /\ ~(pc = "rejected" /\ ci = 0)

\* C7: retryFailed(maxAttempts) hands to processImages exactly the entries
\* with attempts < maxAttempts, one row each; an entry with attempts >=
\* maxAttempts is not fetched, stays as it was and getFailedImages still
\* returns it.
C7_Cutoff ==
    RetryQueried =>
        /\ Len(rows) = Cardinality(FindBelow(failed0, cutoff))
        /\ {rows[i] : i \in 1..Len(rows)} = {RetryRow(d) : d \in FindBelow(failed0, cutoff)}
        /\ fetched \subseteq {d.id : d \in FindBelow(failed0, cutoff)}
        /\ \A d \in failed0 :
              d.attempts >= cutoff =>
                  /\ d.id \notin fetched
                  /\ d \in failed
                  /\ GetFailedImages(failed) # {}
                  /\ \A s \in GetFailedImages(failed) : \E i \in 1..Len(s) : s[i] = d

\* a retry has returned that processed an entry below the cutoff and left
\* alone one at the cutoff
C7_Witness ==
    /\ caller = "retry"
    /\ pc = "resolved"
    /\ Len(outcome) >= 1
    /\ \E d \in failed0 : d.attempts = cutoff /\ d \in failed
    /\ \E d \in failed0 : d.attempts < cutoff /\ d.id \in fetched

CeilDiv(n, b) == (n + b - 1) \div b

\* the rows among the first k of the call that succeeded
Successes(k) == Cardinality({i \in 1..k : outcome[i]})

\* C8: for batch size b >= 1 and n rows, one progress line per finished
\* chunk, in chunk order, logged before the next chunk begins; the
\* cumulative processed and failed counts never decrease and after chunk k
\* sum to the number of rows of chunks 1..k; a pass that returns has logged
\* ceil(n/b) lines, the last summing to n.
C8_Progress ==
    /\ \A k \in 1..Len(progress) :
          LET upto == Min(k * batchSize, Len(rows))
          IN  /\ progress[k].batch = k
              /\ progress[k].batches = CeilDiv(Len(rows), batchSize)
              /\ progress[k].processed + progress[k].failed = upto
              /\ progress[k].processed = Successes(upto)
              /\ k > 1 => /\ progress[k].processed >= progress[k - 1].processed
                          /\ progress[k].failed >= progress[k - 1].failed
    /\ pc = "processChunk" =>
          /\ Len(progress) = ci - 1
          /\ Len(outcome) = (ci - 1) * batchSize + (ri - 1)
    /\ Returned /\ batchSize >= 1 =>
          /\ Len(progress) = CeilDiv(Len(rows), batchSize)
          /\ Len(rows) > 0 =>
                progress[Len(progress)].processed + progress[Len(progress)].failed
                   = Len(rows)

\* three rows in batches of two: two progress lines, the last chunk a short
\* one, with successes and failures
C8_Witness ==
    /\ Returned
    /\ batchSize = 2
    /\ Len(rows) = 3
    /\ Len(progress) = 2
    /\ progress[1].processed = 1 /\ progress[1].failed = 1
    /\ progress[2].processed = 1 /\ progress[2].failed = 2

\* C9: whether start() succeeds or fails, cleanup() has completed when the
\* process exits, with status 0 after a success and non-zero after a
\* failure.
C9_Released ==
    pc = "exited" => cleaned /\ exitCode \in {0, 1}

\* C10: with a file that is missing, too large, empty or without the
\* headers, start() is rejected before a row is processed: no thumbnail is
\* fetched and neither collection changes.
C10_SourceError ==
    caller = "main" /\ file \in SourceErrorFiles =>
        /\ pc \in {"initialize", "readCSV", "rejected", "exited"}
        /\ pc = "exited" => exitCode = 1
        /\ fetched = {}
        /\ outcome = <<>>
        /\ images = images0
        /\ failed = failed0

\* start() has been rejected for the file, with the store connected and
\* both collections holding entries
C10_Witness ==
    /\ caller = "main"
    /\ file \in SourceErrorFiles
    /\ file.exists
    /\ conn = "open"
    /\ pc = "rejected"
    /\ images # {}
    /\ failed # {}

\* both passes have got the answer of the store to their upsert
UpsertsEnded == \A w \in Passes : upserts[w].pc \in {"done", "rejected"}

\* the id both passes record a failure of
UpsertId == upserts[1].row.id

\* attempts of the entry of id in coll, 0 without an entry
AttemptsOf(coll, id) ==
    IF Found(coll, id) THEN (CHOOSE d \in Matching(coll, id) : TRUE).attempts ELSE 0

\* C11: when two passes record a failure of the same id at the same time,
\* every interleaving ends with exactly one failed_images entry of the id,
\* its attempts grown by exactly 2, and neither upsert has raised an error.
C11_AtomicUpsert ==
    UpsertsEnded =>
        /\ \A w \in Passes : upserts[w].pc = "done"
        /\ Cardinality(Matching(failed, UpsertId)) = 1
        /\ AttemptsOf(failed, UpsertId) = AttemptsOf(failed0, UpsertId) + 2

\* C11, of an id that has an entry already: no increment is lost
C11_ExistingEntry ==
    UpsertsEnded /\ Found(failed0, UpsertId) =>
        /\ \A w \in Passes : upserts[w].pc = "done"
        /\ Cardinality(Matching(failed, UpsertId)) = 1
        /\ AttemptsOf(failed, UpsertId) = AttemptsOf(failed0, UpsertId) + 2
        /\ \E w \in Passes :
              \A d \in failed : d.error = upserts[w].error /\ d.lastAttempt = w

\* coll without the lastAttempt of its entries
SansLastAttempt(coll) ==
    {[id |-> d.id, index |-> d.index, url |-> d.url, error |-> d.error,
      attempts |-> d.attempts] : d \in coll}

\* two runs of processChunk have returned the same count and left the same
\* in images and, but for lastAttempt, in failed_images
SameOutcome(a, b) ==
    /\ a.rejected = b.rejected
    /\ a.successCount = b.successCount
    /\ a.images = b.images
    /\ SansLastAttempt(a.failed) = SansLastAttempt(b.failed)

\* no two rows of rs have the same id
DistinctIds(rs) == \A i, j \in 1..Len(rs) : i # j => rs[i].id # rs[j].id

\* C12, as claimed: whatever the chunk, processing its rows in another
\* order, every row meeting the same outcome, gives the same counts and the
\* same final images and failed_images, lastAttempt apart (of a chunk that
\* processChunk gets through in both orders).
C12_OrderIndependent ==
    Len(ran) = 2 /\ ~ran[1].rejected /\ ~ran[2].rejected =>
        SameOutcome(ran[1], ran[2])

\* C12, amended: the same of a chunk whose rows have pairwise distinct ids
\* and that processChunk gets through; it gets through in both orders or in
\* neither.
C12_DistinctIds ==
    Len(ran) = 2 /\ DistinctIds(rows) =>
        /\ ran[1].rejected = ran[2].rejected
        /\ ~ran[1].rejected => SameOutcome(ran[1], ran[2])

\* three rows of distinct ids were processed in two different orders, with
\* successes and failures, and the entries of failed_images differ in
\* lastAttempt only
C12_Witness ==
    /\ Len(ran) = 2
    /\ Len(rows) = 3
    /\ DistinctIds(rows)
    /\ order # <<1, 2, 3>>
    /\ ~ran[1].rejected
    /\ ran[1].successCount = 1
    /\ ran[1].failed # ran[2].failed
    /\ images # {}

\* a row of the id has succeeded in the pass over rows
Succeeds(id) == \E i \in 1..Len(rows) : rows[i].id = id /\ fates[i].fails = "none"

\* C13: a pass is interrupted at any point and the same rows are then run
\* again to the end, every row meeting the same outcome: what the
\* interrupted pass has written is retained (an images entry stays, a
\* failed_images entry stays with no fewer attempts until a row of its id
\* succeeds), and the final images is the one of a single uninterrupted pass.
C13_Resume ==
    Len(ran) = 4 /\ ~ran[4].rejected =>
        /\ ~ran[1].rejected
        /\ ran[4].images = ran[1].images
        /\ \A d \in ran[3].images : Found(ran[4].images, d.id)
        /\ \A d \in ran[3].failed :
              \/ Succeeds(d.id)
              \/ \E e \in ran[4].failed : e.id = d.id /\ e.attempts >= d.attempts

\* a pass in batches of one was interrupted in its second row, after the
\* image was written and before deleteOne reached the store; the second
\* run has completed what the first had begun
C13_Witness ==
    /\ Len(ran) = 4
    /\ ~ran[4].rejected
    /\ batchSize = 1
    /\ stop.row = 2
    /\ stop.at = "deleteOne"
    /\ ~stop.applied
    /\ ran[3].images # images
    /\ ran[3].images # ran[2].images
    /\ ran[3].failed # {}
    /\ ran[4].failed # ran[3].failed
    /\ ran[4].images = ran[1].images

\* C14: when no failed_images entry has attempts < maxAttempts,
\* retryFailed(maxAttempts) returns {total: 0, processed: 0, failed: 0}
\* without a fetch or another store operation and leaves both collections
\* as they were; otherwise its rows are exactly the eligible entries, one
\* row (id, index, url) each, and what it returns is what processImages
\* returns for them.
C14_RetryReturn ==
    RetryQueried =>
        IF FindBelow(failed0, cutoff) = {}
        THEN /\ pc = "resolved"
             /\ result = ZeroResult
             /\ rows = <<>>
             /\ chunks = <<>>
             /\ progress = <<>>
             /\ outcome = <<>>
             /\ fetched = {}
             /\ images = images0
             /\ failed = failed0
        ELSE /\ Len(rows) = Cardinality(FindBelow(failed0, cutoff))
             /\ {rows[i] : i \in 1..Len(rows)} = {RetryRow(d) : d \in FindBelow(failed0, cutoff)}
             /\ pc = "resolved" =>
                   /\ chunks = Chunk(rows, batchSize)
                   /\ result.total = Len(rows)
                   /\ result.processed = Successes(Len(outcome))
                   /\ result.failed = Len(outcome) - Successes(Len(outcome))

\* retryFailed has returned the zero result although failed_images holds an
\* entry, which is at the cutoff, and images holds one
C14_Witness ==
    /\ caller = "retry"
    /\ pc = "resolved"
    /\ result = ZeroResult
    /\ rows = <<>>
    /\ failed0 # {}
    /\ FindBelow(failed0, cutoff) = {}
    /\ images # {}

\* text is a base-10 integer: digits, after a sign or not, and nothing else
IsInteger(text) ==
    LET body == IF text # <<>> /\ Head(text) \in {"+", "-"} THEN Tail(text) ELSE text
    IN  body # <<>> /\ DigitRun(body) = Len(body)

\* the row is well-formed: an id, a url that parses, an index that is a
\* base-10 integer
WellFormed(row) ==
    /\ row.id # <<>>
    /\ row.url # <<>>
    /\ ValidateUrl(row.url)
    /\ IsInteger(row.index)

\* the raw rows of the file: the lines after the header, mapped to its columns
FileRows ==
    LET lines == SelectSeq(file.lines, KeepLine)
    IN  [i \in 1..(Len(lines) - 1) |-> MapRow(Headers(Head(lines)), lines[i + 1])]

\* start() has got the rows from readCSV
RowsRead ==
    /\ caller = "main"
    /\ \/ pc \in {"processImages", "processChunk", "resolved"}
       \/ pc \in {"rejected", "exited"} /\ ci >= 1
       \/ pc = "exited" /\ exitCode = 0

\* C15: a raw row without id, with a url that is empty or does not parse, or
\* with an index that is not a base-10 integer is not among the rows readCSV
\* returns, is not counted in total, and no entry of its id is created or
\* changed for it by the pass; the well-formed rows are all returned, in the
\* order of the file.
C15_MalformedExcluded ==
    RowsRead =>
        /\ rows = SelectSeq(FileRows, WellFormed)
        /\ Returned => result.total = Len(SelectSeq(FileRows, WellFormed))
        /\ \A i \in 1..Len(FileRows) :
              ~WellFormed(FileRows[i]) =>
                  /\ Matching(images, FileRows[i].id) = Matching(images0, FileRows[i].id)
                  /\ Matching(failed, FileRows[i].id) = Matching(failed0, FileRows[i].id)

\* the step is the turn of a row whose thumbnail fetch fails, its failure
\* recorded in failed_images or, the upsert rejected, not recorded
FetchFails ==
    /\ pc = "processChunk"
    /\ ledger'[Row.id].error = ThumbnailError(Row.id)
    /\ \/ ledger'[Row.id].n = ledger[Row.id].n + 1
       \/ pc' = "rejected"

\* C16: a row whose thumbnail fetch fails leaves images as it was: no entry
\* is created for its id, an entry of its id keeps its index and thumbnail;
\* of failed_images only the entry of its id changes.
C16_FetchFailure ==
    [][FetchFails =>
          /\ images' = images
          /\ \A d \in failed \cup failed' :
                d.id # Row.id => (d \in failed <=> d \in failed')]_vars

\* in the second pass the fetch has failed for an id whose image the first
\* pass has stored: the image is the one the pass began with and the
\* failure is in failed_images
C16_Witness ==
    \E id \in Ids :
        /\ passes = 2
        /\ ledger[id].error = ThumbnailError(id)
        /\ ledger[id].at = passes
        /\ ~ledger[id].lost
        /\ Found(images, id)
        /\ Matching(images, id) = Matching(images0, id)
        /\ Found(failed, id)
        /\ ~Found(failed0, id)

\* C17: when only retryFailed(maxAttempts) is called, again and again, one
\* of the first maxAttempts calls returns total = 0 and so does every call
\* after it: the call that is the maxAttempts-th or a later one returns
\* total = 0.
C17_Converges ==
    caller = "retry" /\ pc = "resolved" /\ passes >= cutoff => result.total = 0

\* C18: in a pass of retryFailed(maxAttempts) that begins with attempts <=
\* maxAttempts in every entry, attempts <= maxAttempts holds in every entry
\* in every state; the next pass begins with what this one leaves, so it
\* holds as long as only such passes run.
C18_Bounded ==
    passes >= 1 /\ (\A e \in failed0 : e.attempts <= cutoff) =>
        \A d \in failed : d.attempts <= cutoff

\* the first retry has failed again for an entry one below the cutoff, the
\* second has found nothing to process, and the entry stands at the cutoff
C18_Witness ==
    /\ passes = 2
    /\ pc = "resolved"
    /\ result = ZeroResult
    /\ prev.rows # <<>>
    /\ \A d \in failed : d.attempts <= cutoff
    /\ \E d \in failed : d.attempts = cutoff /\ d.lastAttempt = 1

\* C19: after any passes of start() and retryFailed() run one after the
\* other, files with an id in several rows included, images holds one entry
\* per id at most and so does failed_images; the rows of a repeated id go
\* through create and then update: after a pass that has returned, the one
\* entry of the id carries what its last succeeded row wrote, when no row
\* of the id came after it.
C19_OnePerId ==
    /\ \A id \in Ids :
          /\ Cardinality(Matching(images, id)) <= 1
          /\ Cardinality(Matching(failed, id)) <= 1
    /\ \A d \in images \cup failed : d.id \in Ids
    /\ Returned =>
          \A i \in 1..Len(outcome) :
              LastOfId(i) /\ outcome[i] =>
                  Matching(images, rows[i].id) =
                      {[id |-> rows[i].id, index |-> RowIndex(rows[i]),
                        thumbnail |-> Thumbnail(rows[i].url)]}

\* a pass has returned in which two rows of an id that images did not hold
\* have both succeeded, with different indexes; images holds the id once
C19_Witness ==
    /\ Returned
    /\ \E i, j \in 1..Len(outcome) :
          /\ i < j
          /\ rows[i].id = rows[j].id
          /\ outcome[i] /\ outcome[j]
          /\ RowIndex(rows[i]) # RowIndex(rows[j])
          /\ ~(\E d \in images0 : d.id = rows[i].id)
          /\ Cardinality(Matching(images, rows[i].id)) = 1
          /\ InImages(rows[j])

====
